---- MODULE Spec2Model ----
(***************************************************************************)
(* Model of hotspot_metrics/scraper/scraper.py: the controller loop run(), *)
(* the HotspotScraper session (start / stop / scrape / _on_response /      *)
(* get_latest_model_event), the classifiers and the publication fan-out.   *)
(*                                                                         *)
(* Three actors share the state: the controller thread (run), the          *)
(* response listener (_on_response) and, through the SSEBroadcaster, the   *)
(* stream handlers.  queue.Queue operations (get, get_nowait, put_nowait,  *)
(* qsize) are atomic steps; everything between two of them may interleave. *)
(* Calls into the browser library (launch, login, close, stop) are atomic  *)
(* steps whose outcome (returns / raises) is chosen nondeterministically.  *)
(* KeyboardInterrupt may arrive between any two steps of run().            *)
(***************************************************************************)
EXTENDS Integers, Sequences, FiniteSets, TLC

\* ------------------------------------------------------------- bounds
\* Iterations are cut off once empty_streak reaches MaxStreak (the streak
\* itself is unbounded in the program).
MaxStreak == 61
\* Responses the listener handles while the controller loop runs.
MaxCtlPushes == 1
\* Responses the listener handles in the queue-only specification.
MaxPushes == 6
\* Stream connections (handler threads) in the fan-out specification.
MaxHandlers == 2
\* Broadcasts in the fan-out specification.
MaxSent == 9
\* How far below and above the range its clamp keeps the readings given
\* to quality_score run.
Margin == 2

\* ---------------------------------------------------- program constants
SCRAPE_INTERVAL == 5
INITIAL_THRESHOLD == 5
THRESHOLD_CAP == 60
BACKOFF_CAP == 60
EVICT_AT == 4
QUEUE_MAXSIZE == 32
MAILBOX_MAXSIZE == 8

Min(a, b) == IF a <= b THEN a ELSE b
Max(a, b) == IF a >= b THEN a ELSE b

\* Optional values: None is the empty sequence, a present value v is <<v>>.
None == << >>
Some(v) == << v >>

SOURCE_STATE_CODES ==
    [s \in {"ok", "no_signal", "source_unavailable", "parse_warning",
            "scrape_error", "startup_error"} |->
        CASE s = "ok" -> 0
          [] s = "no_signal" -> 1
          [] s = "source_unavailable" -> 2
          [] s = "parse_warning" -> 3
          [] s = "scrape_error" -> 4
          [] s = "startup_error" -> 5]

NUMERIC_FIELDS == {"lte_rsrp", "lte_rsrq", "lte_snr", "nr_rsrp", "nr_rsrq", "nr_snr"}

empty_diagnostics ==
    [lte_rsrp |-> None, lte_rsrq |-> None, lte_snr |-> None,
     nr_rsrp |-> None, nr_rsrq |-> None, nr_snr |-> None,
     band |-> "", service_type |-> ""]

\* ------------------------------------------------- text-mode parser
\* A page text is a sequence of lines.  A line is a record
\*   label : the label text as it appears on the page ("" when the line
\*           carries no label),
\*   rest  : the remainder of the line after the label, stripped,
\*   whole : the whole line, stripped,
\*   kind  : "num" when rest starts with a signed decimal, else "text",
\*   num   : that decimal (integers only here),
\*   unit  : what follows the decimal, stripped,
\*   na    : whether the line contains "n/a" in any letter case.
Line(label, rest, whole, kind, num, unit, na) ==
    [label |-> label, rest |-> rest, whole |-> whole, kind |-> kind,
     num |-> num, unit |-> unit, na |-> na]

\* re.escape(unit) is matched right after the number with no anchor behind
\* it, so the unit "dB" also matches text that continues "dBm".
UnitMatches(unit, found) ==
    \/ found = unit
    \/ unit = "dB" /\ found = "dBm"

extract_metric(text, label, unit) ==
    LET idx == {i \in 1..Len(text) : /\ text[i].label = label
                                     /\ text[i].kind = "num"
                                     /\ UnitMatches(unit, text[i].unit)}
    IN  IF idx = {} THEN None
        ELSE Some(text[CHOOSE k \in idx : \A j \in idx : k <= j].num)

\* label\s*([^\n\r]+): the capture is the rest of the label's line, or, when
\* nothing but whitespace follows the label there, the whole next line.
extract_string(text, label) ==
    LET Hit(i) == /\ text[i].label = label
                  /\ (text[i].rest # "" \/ i < Len(text))
        idx == {i \in 1..Len(text) : Hit(i)}
    IN  IF idx = {} THEN ""
        ELSE LET i == CHOOSE k \in idx : \A j \in idx : k <= j
             IN  IF text[i].rest # "" THEN text[i].rest ELSE text[i + 1].whole

parse_diagnostics(text) ==
    [lte_rsrp |-> extract_metric(text, "LTE RSRP", "dBm"),
     lte_rsrq |-> extract_metric(text, "LTE RSRQ", "dB"),
     lte_snr |-> extract_metric(text, "LTE RS-SNR", "dB"),
     nr_rsrp |-> extract_metric(text, "5G RSRP", "dBm"),
     nr_rsrq |-> extract_metric(text, "5G RSRQ", "dB"),
     nr_snr |-> extract_metric(text, "5G RS-SNR", "dB"),
     band |-> extract_string(text, "Current Radio Band"),
     service_type |-> extract_string(text, "PS Service Type")]

diagnostics_labels ==
    {"lte rsrp", "lte rsrq", "lte rs-snr", "5g rsrp", "5g rsrq", "5g rs-snr",
     "current radio band", "ps service type"}

\* str.lower() on the label texts the model uses.
Lower(label) ==
    CASE label = "LTE RSRP" -> "lte rsrp"
      [] label = "LTE RSRQ" -> "lte rsrq"
      [] label = "LTE RS-SNR" -> "lte rs-snr"
      [] label = "5G RSRP" -> "5g rsrp"
      [] label = "5G RSRQ" -> "5g rsrq"
      [] label = "5G RS-SNR" -> "5g rs-snr"
      [] label = "Current Radio Band" -> "current radio band"
      [] label = "PS Service Type" -> "ps service type"
      [] label = "Login" -> "login"
      [] OTHER -> label

ParsedAny(data) ==
    \/ \E key \in NUMERIC_FIELDS : data[key] # None
    \/ data.band # ""
    \/ data.service_type # ""

\* Mutant: "n/a" not looked for.
classify_source_state_NoNa(text, data) ==
    LET labels_present == \E i \in 1..Len(text) : Lower(text[i].label) \in diagnostics_labels
    IN  IF ParsedAny(data) THEN "ok"
        ELSE IF labels_present THEN "parse_warning"
        ELSE "source_unavailable"

classify_source_state(text, data) ==
    LET labels_present == \E i \in 1..Len(text) : Lower(text[i].label) \in diagnostics_labels
        na_present == \E i \in 1..Len(text) : text[i].na
    IN  IF ParsedAny(data) THEN "ok"
        ELSE IF labels_present /\ na_present THEN "no_signal"
        ELSE IF labels_present THEN "parse_warning"
        ELSE "source_unavailable"

\* ------------------------------------------------- JSON-mode parser
\* A raw JSON value is a record [kind, num]:
\*   "none"    the key is missing or null
\*   "num"     an int or float, num its value
\*   "blank"   a string that is empty after strip()
\*   "numstr"  a string holding a signed decimal, num the first one in it
\*   "garbage" a string holding no digit
\*   "other"   a list or a mapping
Raw(kind, num) == [kind |-> kind, num |-> num]
RawNone == Raw("none", 0)

Triple(value, sentinel, malformed) ==
    [value |-> value, sentinel |-> sentinel, malformed |-> malformed]

SENTINELS == {-32768, -3276, 32767, 3276}

\* Mutant: the normalizer without its range check.
_extract_metric_value_NoRange(raw) ==
    IF raw.kind = "none" THEN Triple(None, FALSE, FALSE)
    ELSE IF raw.kind = "blank" THEN Triple(None, FALSE, FALSE)
    ELSE IF raw.kind \in {"garbage", "other"} THEN Triple(None, FALSE, TRUE)
    ELSE IF raw.num \in SENTINELS THEN Triple(None, TRUE, FALSE)
    ELSE Triple(Some(raw.num), FALSE, FALSE)

_extract_metric_value(raw) ==
    IF raw.kind = "none" THEN Triple(None, FALSE, FALSE)
    ELSE IF raw.kind = "blank" THEN Triple(None, FALSE, FALSE)
    ELSE IF raw.kind \in {"garbage", "other"} THEN Triple(None, FALSE, TRUE)
    ELSE IF raw.num \in SENTINELS THEN Triple(None, TRUE, FALSE)
    ELSE IF raw.num < -300 \/ raw.num > 300 THEN Triple(None, TRUE, FALSE)
    ELSE Triple(Some(raw.num), FALSE, FALSE)

RECURSIVE PickFrom(_, _, _, _)
\* The loop of _pick_metric from candidate i on, with the flags seen so far.
PickFrom(candidates, i, sentinel_seen, malformed_seen) ==
    IF i > Len(candidates) THEN Triple(None, sentinel_seen, malformed_seen)
    ELSE LET r == _extract_metric_value(candidates[i])
             s == sentinel_seen \/ r.sentinel
             m == malformed_seen \/ r.malformed
         IN  IF r.value # None THEN Triple(r.value, s, m)
             ELSE PickFrom(candidates, i + 1, s, m)

_pick_metric(candidates) == PickFrom(candidates, 1, FALSE, FALSE)

DiagKeys == {"ltesigRsrp", "ltesigRsrq", "ltesigSnr",
             "nr5gsigRsrp", "nr5gsigRsrq", "nr5gsigSnr"}
SignalKeys == {"rsrp", "lteRsrp", "rsrq", "lteRsrq", "snr", "lteSnr",
               "nr5gRsrp", "nr5gRSRP", "nr5gRsrq", "nr5gRSRQ", "nr5gSnr", "nr5gSNR"}

\* Mutant: sentinels alone not told apart from an unreachable device.
ModelStateNoSentinelRule(data, sentinel_seen, malformed_seen) ==
    IF ParsedAny(data) THEN "ok"
    ELSE IF malformed_seen THEN "parse_warning"
    ELSE "source_unavailable"

\* 327-338: the state of a payload that has a wwan mapping.
ModelState(data, sentinel_seen, malformed_seen) ==
    IF ParsedAny(data) THEN "ok"
    ELSE IF sentinel_seen /\ ~malformed_seen THEN "no_signal"
    ELSE IF malformed_seen THEN "parse_warning"
    ELSE "source_unavailable"

\* A model payload is a record
\*   isdict  : the payload is a mapping
\*   haswwan : its "wwan" entry is a mapping
\*   diag0   : DiagKeys -> raw, the first element of wwan.diagInfo
\*             (all "none" when diagInfo is no non-empty list of mappings)
\*   signal  : SignalKeys -> raw, wwan.signalStrength (all "none" when it
\*             is no mapping)
\*   advBand, curBand, ps, nw : str(...).strip() of wwanadv.curBand,
\*             wwan.curBand, wwan.currentPSserviceType and
\*             wwan.currentNWserviceType ("" when missing)
parse_model_payload(model) ==
    IF ~model.isdict THEN [data |-> empty_diagnostics, state |-> "source_unavailable"]
    ELSE IF ~model.haswwan THEN [data |-> empty_diagnostics, state |-> "source_unavailable"]
    ELSE
    LET diag0 == model.diag0
        signal == model.signal
        p1 == _pick_metric(<<diag0["ltesigRsrp"], signal["rsrp"], signal["lteRsrp"]>>)
        p2 == _pick_metric(<<diag0["ltesigRsrq"], signal["rsrq"], signal["lteRsrq"]>>)
        p3 == _pick_metric(<<diag0["ltesigSnr"], signal["snr"], signal["lteSnr"]>>)
        p4 == _pick_metric(<<diag0["nr5gsigRsrp"], signal["nr5gRsrp"], signal["nr5gRSRP"]>>)
        p5 == _pick_metric(<<diag0["nr5gsigRsrq"], signal["nr5gRsrq"], signal["nr5gRSRQ"]>>)
        p6 == _pick_metric(<<diag0["nr5gsigSnr"], signal["nr5gSnr"], signal["nr5gSNR"]>>)
        ps == <<p1, p2, p3, p4, p5, p6>>
        sentinel_seen == \E i \in 1..6 : ps[i].sentinel
        malformed_seen == \E i \in 1..6 : ps[i].malformed
        band == IF model.advBand # "" THEN model.advBand ELSE model.curBand
        service_type == IF model.ps # "" THEN model.ps ELSE model.nw
        data == [lte_rsrp |-> p1.value, lte_rsrq |-> p2.value, lte_snr |-> p3.value,
                 nr_rsrp |-> p4.value, nr_rsrq |-> p5.value, nr_snr |-> p6.value,
                 band |-> band, service_type |-> service_type]
    IN  [data |-> data, state |-> ModelState(data, sentinel_seen, malformed_seen)]

\* ------------------------------------------------- quality score
\* round() of Python 3 rounds an exact half to the even neighbour.
RoundHalfEven(n, d) ==
    LET q == n \div d
        r == n % d
    IN  IF 2 * r < d THEN q
        ELSE IF 2 * r > d THEN q + 1
        ELSE IF q % 2 = 0 THEN q ELSE q + 1

\* Mutant: the clamp without its lower end.
ClampNumNoFloor(num, den) == Min(den, num)

\* clamp(num/den, 0, 1) as a numerator over den.
ClampNum(num, den) == Max(0, Min(den, num))

\* quality_score over integer readings.  The three parts are
\*   clamp((snr+5)/25), clamp((rsrq+20)/17), clamp((rsrp+120)/40)
\* with weights 0.50, 0.30, 0.20; over the common denominator 25*17*40 and
\* weights 5, 3, 2 the result is round(100 * vsum / wsum).
quality_score(snr, rsrq, rsrp) ==
    IF snr = None /\ rsrq = None /\ rsrp = None THEN None
    ELSE
    LET v1 == IF snr = None THEN 0 ELSE 5 * ClampNum(snr[1] + 5, 25) * 17 * 40
        v2 == IF rsrq = None THEN 0 ELSE 3 * ClampNum(rsrq[1] + 20, 17) * 25 * 40
        v3 == IF rsrp = None THEN 0 ELSE 2 * ClampNum(rsrp[1] + 120, 40) * 25 * 17
        wsum == (IF snr = None THEN 0 ELSE 5) + (IF rsrq = None THEN 0 ELSE 3)
                + (IF rsrp = None THEN 0 ELSE 2)
    IN  Some(RoundHalfEven(100 * (v1 + v2 + v3), wsum * 25 * 17 * 40))

\* ------------------------------------------------- publication
\* A gauge holds a float; float("nan") is kept apart from every number.
NaN == [nan |-> TRUE, v |-> 0]
Num(v) == [nan |-> FALSE, v |-> v]
\* _set(gauge, val): val if val is not None else float("nan")
GaugeOf(val) == IF val = None THEN NaN ELSE Num(val[1])
\* Mutant: an absent quality score published as a value no score can take.
QualityOfAbsentApart(q) == IF q = None THEN -1 ELSE q[1]

\* LTE_QUALITY.set(lte_q if lte_q is not None else 0)
QualityOf(q) == IF q = None THEN 0 ELSE q[1]

\* Mutant: no_signal published as a failed scrape.
ScrapeSuccessOkOnly(source_state) == IF source_state = "ok" THEN 1 ELSE 0

\* Mutant: every sample published as a successful scrape.
ScrapeSuccessAlways(source_state) == 1

ScrapeSuccess(source_state) == IF source_state \in {"ok", "no_signal"} THEN 1 ELSE 0

\* The registry after update_gauges(data, source_state, _, empty_streak, _).
\* The two Info metrics keep their last value when the new one is empty.
GaugesAfter(reg, d, source_state, streak) ==
    LET lte_q == quality_score(d.lte_snr, d.lte_rsrq, d.lte_rsrp)
        nr_q == quality_score(d.nr_snr, d.nr_rsrq, d.nr_rsrp)
    IN  [LTE_RSRP |-> GaugeOf(d.lte_rsrp), LTE_RSRQ |-> GaugeOf(d.lte_rsrq),
         LTE_SNR |-> GaugeOf(d.lte_snr), NR_RSRP |-> GaugeOf(d.nr_rsrp),
         NR_RSRQ |-> GaugeOf(d.nr_rsrq), NR_SNR |-> GaugeOf(d.nr_snr),
         LTE_QUALITY |-> Num(QualityOf(lte_q)), NR_QUALITY |-> Num(QualityOf(nr_q)),
         SERVICE_TYPE |-> IF d.service_type # "" THEN d.service_type ELSE reg.SERVICE_TYPE,
         RADIO_BAND |-> IF d.band # "" THEN d.band ELSE reg.RADIO_BAND,
         SOURCE_STATE_CODE |-> SOURCE_STATE_CODES[source_state],
         SOURCE_EMPTY_STREAK |-> streak,
         SOURCE_STATUS |-> source_state,
         SCRAPE_SUCCESS |-> ScrapeSuccess(source_state)]

\* The dict update_gauges returns (timestamps and the message left out).
PayloadOf(d, source_state, streak) ==
    LET lte_q == quality_score(d.lte_snr, d.lte_rsrq, d.lte_rsrp)
        nr_q == quality_score(d.nr_snr, d.nr_rsrq, d.nr_rsrp)
    IN  [lte_quality |-> QualityOf(lte_q), nr_quality |-> QualityOf(nr_q),
         lte_rsrp |-> d.lte_rsrp, lte_rsrq |-> d.lte_rsrq, lte_snr |-> d.lte_snr,
         nr_rsrp |-> d.nr_rsrp, nr_rsrq |-> d.nr_rsrq, nr_snr |-> d.nr_snr,
         band |-> d.band, service_type |-> d.service_type,
         source_state |-> source_state, empty_streak |-> streak,
         scrape_success |-> ScrapeSuccess(source_state)]

\* A fresh prometheus registry: every Gauge starts at 0, every Info empty.
InitialGauges ==
    [LTE_RSRP |-> Num(0), LTE_RSRQ |-> Num(0), LTE_SNR |-> Num(0),
     NR_RSRP |-> Num(0), NR_RSRQ |-> Num(0), NR_SNR |-> Num(0),
     LTE_QUALITY |-> Num(0), NR_QUALITY |-> Num(0),
     SERVICE_TYPE |-> "", RADIO_BAND |-> "",
     SOURCE_STATE_CODE |-> 0, SOURCE_EMPTY_STREAK |-> 0, SOURCE_STATUS |-> "",
     SCRAPE_SUCCESS |-> 0]

\* queue.Queue(maxsize=8).put_nowait(p): queue.Full leaves the queue as it is.
MailboxPut(q, p) == IF Len(q) < MAILBOX_MAXSIZE THEN Append(q, p) ELSE q

\* SSEBroadcaster.broadcast run without interruption: put_nowait on every
\* queue of self._clients (cs, the handlers whose queues are registered),
\* queue.Full dropped.
BroadcastTo(cs, boxes, p) ==
    [h \in DOMAIN boxes |->
        IF \E i \in 1..Len(cs) : cs[i] = h THEN MailboxPut(boxes[h], p) ELSE boxes[h]]

\* ------------------------------------------------- controller arithmetic
\* Mutant: a failed fallback scrape not counted as a failure.
IsFailureStateNoScrapeError(s) ==
    s \in {"source_unavailable", "parse_warning", "startup_error"}

IsFailureState(s) ==
    s \in {"source_unavailable", "parse_warning", "scrape_error", "startup_error"}

\* Mutant: the restart one evaluation late.
ShouldRestartLate(s, streak, threshold) ==
    s \in {"source_unavailable", "parse_warning", "scrape_error"} /\ streak > threshold

\* Mutant: a failed fallback scrape never forces a restart.
ShouldRestartNoScrapeError(s, streak, threshold) ==
    s \in {"source_unavailable", "parse_warning"} /\ streak >= threshold

ShouldRestart(s, streak, threshold) ==
    s \in {"source_unavailable", "parse_warning", "scrape_error"} /\ streak >= threshold

BackoffSeconds(threshold) ==
    Min(SCRAPE_INTERVAL * Max(1, threshold \div 5), BACKOFF_CAP)

\* Mutant: the doubling without its cap.
NextThresholdUncapped(threshold) == threshold * 2

NextThreshold(threshold) == Min(threshold * 2, THRESHOLD_CAP)

\* Mutant: parse_warning not counted as a failure.
StreakAfterNoParseWarning(s, streak) ==
    IF s \in {"source_unavailable", "scrape_error", "startup_error"} THEN streak + 1 ELSE 0

StreakAfter(s, streak) == IF IsFailureState(s) THEN streak + 1 ELSE 0

\* Mutant: the threshold not reset on recovery.
ThresholdAfterKept(s, threshold) == threshold

ThresholdAfter(s, threshold) == IF IsFailureState(s) THEN threshold ELSE INITIAL_THRESHOLD

\* Mutant: the eviction one event late.
QueueFullLate(q) == Len(q) > EVICT_AT

QueueFull(q) == Len(q) >= EVICT_AT

\* ------------------------------------------------- sample inputs
NoDiag == [k \in DiagKeys |-> RawNone]
NoSignal == [k \in SignalKeys |-> RawNone]
\* the "wwan" section of the payload
Wwan(diag0, signal, curBand, ps) ==
    [isdict |-> TRUE, haswwan |-> TRUE, diag0 |-> diag0, signal |-> signal,
     advBand |-> "", curBand |-> curBand, ps |-> ps, nw |-> ""]

ModelPayloads ==
    { \* {"wwan":{"signalStrength":{"rsrp":-95,"rsrq":-10,"snr":12},"currentPSserviceType":"5G"}}
      Wwan(NoDiag, [NoSignal EXCEPT !["rsrp"] = Raw("num", -95), !["rsrq"] = Raw("num", -10),
                                    !["snr"] = Raw("num", 12)], "", "5G"),
      \* {"wwan":{"signalStrength":{"rsrp":-32768}}}
      Wwan(NoDiag, [NoSignal EXCEPT !["rsrp"] = Raw("num", -32768)], "", ""),
      \* {"wwan":{"signalStrength":{"rsrp":"--"}}}
      Wwan(NoDiag, [NoSignal EXCEPT !["rsrp"] = Raw("garbage", 0)], "", ""),
      \* {"wwan":{}}
      Wwan(NoDiag, NoSignal, "", ""),
      \* {"general":{}}
      [Wwan(NoDiag, NoSignal, "", "") EXCEPT !.haswwan = FALSE] }

\* The payloads of the queue-only specification: one healthy, one not.
QueuePayloads ==
    { Wwan(NoDiag, [NoSignal EXCEPT !["rsrp"] = Raw("num", -95)], "", ""),
      Wwan(NoDiag, NoSignal, "", "") }

Texts ==
    { \* "LTE RSRP -95 dBm\nCurrent Radio Band LTE B66"
      << Line("LTE RSRP", "-95 dBm", "LTE RSRP -95 dBm", "num", -95, "dBm", FALSE),
         Line("Current Radio Band", "LTE B66", "Current Radio Band LTE B66", "text", 0, "", FALSE) >>,
      \* "LTE RSRP: N/A"
      << Line("LTE RSRP", ": N/A", "LTE RSRP: N/A", "text", 0, "", TRUE) >>,
      \* "lte rsrp -95 dBm": the label in another letter case
      << Line("lte rsrp", "-95 dBm", "lte rsrp -95 dBm", "num", -95, "dBm", FALSE) >>,
      \* "LTE RSRP -32768 dBm": the page shows the device's sentinel reading
      << Line("LTE RSRP", "-32768 dBm", "LTE RSRP -32768 dBm", "num", -32768, "dBm", FALSE) >>,
      \* the login page
      << Line("Login", "", "Login", "text", 0, "", FALSE) >> }

\* ------------------------------------------------- state
VARIABLES
    \* run(): position and locals
    pc, scraper, empty_streak, restart_threshold, state, data, event,
    backoff_seconds, payload,
    \* the HotspotScraper object `scraper` names (or named last)
    pw, browser, page, model_events,
    \* HotspotScraper.stop(): who called it
    stop_ret,
    \* _on_response: position, the event being queued, responses handled
    l_pc, l_event, pushed,
    \* the prometheus registry, SCRAPE_FAILURE_TOTAL's increase within the
    \* current iteration, the SSE subscribers' mailboxes
    gauges, failure_inc, clients,
    \* history: the payload last handed to broadcast; update_gauges and
    \* broadcast calls of the current iteration; whether start() raised on
    \* the current object; failure evaluations since the last ok/no_signal;
    \* the last backoff slept since the last ok/no_signal (0: none); whether
    \* KeyboardInterrupt arrived; events get_nowait evicted or consumed
    last_broadcast, n_gauges, n_bcast, start_failed, consec, prev_backoff,
    interrupted, consumed,
    \* history: what get_latest_model_event found when its get() returned
    call,
    \* SSEBroadcaster and the stream handlers: every handler's mailbox (the
    \* queue subscribe() made for it), the position of broadcast() in its
    \* loop over self._clients (0: not inside), every handler's position,
    \* broadcasts made
    mailbox, cursor, handler, sent,
    \* history, for every handler in its read loop: last, the number of the
    \* newest broadcast it can no longer read (the broadcasts made when
    \* subscribe() put its queue on the client list, then the number of the
    \* last event it read); early, "waiting" when an event lay in its mailbox
    \* as subscribe() returned and it has read nothing yet, "read" when that
    \* event is the only one it has read so far, "no" otherwise
    stream,
    \* a parser function called on its own: which, its argument, its result
    fn, arg, ret

vars == << pc, scraper, empty_streak, restart_threshold, state, data, event,
           backoff_seconds, payload, pw, browser, page, model_events, stop_ret,
           l_pc, l_event, pushed, gauges, failure_inc, clients,
           last_broadcast, n_gauges, n_bcast, start_failed, consec, prev_backoff,
           interrupted, consumed, call, mailbox, cursor, handler, sent, stream,
           fn, arg, ret >>

ctlVars == << pc, scraper, empty_streak, restart_threshold, state, data, event,
              backoff_seconds, payload, stop_ret >>
sessVars == << pw, browser, page >>
lisVars == << l_pc, l_event, pushed >>
pubVars == << gauges, failure_inc, clients, last_broadcast, n_gauges, n_bcast >>
histVars == << start_failed, consec, prev_backoff, interrupted >>
fanVars == << mailbox, cursor, handler, sent, stream >>
pureVars == << fn, arg, ret >>

NoEvent == [id |-> 0, data |-> empty_diagnostics, state |-> "none"]
\* no call of get_latest_model_event is under way
NoCall == [q |-> << >>, pushed |-> 0, idle |-> TRUE, last |-> 0]
\* the handler threads a stream connection can start
Handlers == 1..MaxHandlers
\* no parser function is being called on its own
NoArg == [none |-> TRUE]

\* SSEBroadcaster.__init__ (86-88): no client; no connection has been made.
InitFanout ==
    /\ clients = << >>
    /\ mailbox = [h \in Handlers |-> << >>]
    /\ cursor = 0
    /\ handler = [h \in Handlers |-> "none"]
    /\ sent = 0
    /\ stream = [h \in Handlers |-> [last |-> 0, early |-> "no"]]

InitNoArg == fn = "none" /\ arg = NoArg /\ ret = NoArg

\* 539-547 with the module's globals: run() before its first iteration.
InitRun ==
    /\ pc = "loop"
    /\ scraper = "None"
    /\ empty_streak = 0
    /\ restart_threshold = INITIAL_THRESHOLD
    /\ state = "none"
    /\ data = empty_diagnostics
    /\ event = None
    /\ backoff_seconds = 0
    /\ payload = PayloadOf(empty_diagnostics, "none", 0)
    /\ pw = "unset"
    /\ browser = "unset"
    /\ page = "unset"
    /\ model_events = << >>
    /\ stop_ret = "none"
    /\ l_pc = "idle"
    /\ l_event = NoEvent
    /\ pushed = 0
    /\ gauges = InitialGauges
    /\ failure_inc = 0
    /\ InitFanout
    /\ call = NoCall
    /\ last_broadcast = PayloadOf(empty_diagnostics, "none", 0)
    /\ n_gauges = 0
    /\ n_bcast = 0
    /\ start_failed = FALSE
    /\ consec = 0
    /\ prev_backoff = 0
    /\ interrupted = FALSE
    /\ consumed = 0

Init == InitRun /\ InitNoArg

\* ------------------------------------------------- run(): session start
\* 549-556: a new iteration with no session: scraper = HotspotScraper().
\* The new object has its own empty queue and no browser yet.
LoopNoSession ==
    /\ pc = "loop" /\ scraper = "None" /\ empty_streak < MaxStreak
    /\ scraper' = "obj"
    /\ pw' = "unset" /\ browser' = "unset" /\ page' = "unset"
    /\ model_events' = << >>
    /\ start_failed' = FALSE
    /\ n_gauges' = 0 /\ n_bcast' = 0 /\ failure_inc' = 0
    /\ pc' = "start_pw"
    /\ UNCHANGED << empty_streak, restart_threshold, state, data, event, backoff_seconds,
                    payload, stop_ret, lisVars, gauges, clients, last_broadcast,
                    consec, prev_backoff, interrupted, consumed,
                    call, fanVars, pureVars >>

\* 549-554, 576: a new iteration on the session the controller holds.
LoopWithSession ==
    /\ pc = "loop" /\ scraper # "None" /\ empty_streak < MaxStreak
    /\ n_gauges' = 0 /\ n_bcast' = 0 /\ failure_inc' = 0
    /\ pc' = "get_wait"
    /\ UNCHANGED << scraper, empty_streak, restart_threshold, state, data, event,
                    backoff_seconds, payload, stop_ret, sessVars, model_events, lisVars,
                    gauges, clients, last_broadcast, histVars, consumed,
                    call, fanVars, pureVars >>

\* 424: self._pw = sync_playwright().start(), outside start()'s try: when it
\* raises, start() raises with nothing to release.
StartPw ==
    /\ pc = "start_pw"
    /\ \/ pw' = "running" /\ pc' = "start_launch" /\ UNCHANGED start_failed
       \/ pw' = pw /\ pc' = "startup_except" /\ start_failed' = TRUE
    /\ UNCHANGED << scraper, empty_streak, restart_threshold, state, data, event,
                    backoff_seconds, payload, stop_ret, browser, page, model_events,
                    lisVars, pubVars, consec, prev_backoff, interrupted, consumed,
                    call, fanVars, pureVars >>

\* 426: self._browser = chromium.launch(); 431-432 when it raises.
StartLaunch ==
    /\ pc = "start_launch"
    /\ \/ browser' = "open" /\ pc' = "start_page" /\ UNCHANGED stop_ret
       \/ browser' = browser /\ pc' = "stop_browser" /\ stop_ret' = "start"
    /\ UNCHANGED << scraper, empty_streak, restart_threshold, state, data, event,
                    backoff_seconds, payload, pw, page, model_events,
                    lisVars, pubVars, histVars, consumed,
                    call, fanVars, pureVars >>

\* 427-428: new_page() and page.on("response", self._on_response).
StartPage ==
    /\ pc = "start_page"
    /\ \/ page' = "ready" /\ pc' = "start_login" /\ UNCHANGED stop_ret
       \/ page' = page /\ pc' = "stop_browser" /\ stop_ret' = "start"
    /\ UNCHANGED << scraper, empty_streak, restart_threshold, state, data, event,
                    backoff_seconds, payload, pw, browser, model_events,
                    lisVars, pubVars, histVars, consumed,
                    call, fanVars, pureVars >>

\* 429-430: _login() and _navigate_to_diagnostics(); start() returns and
\* run() goes on at 576, or 431-432.
StartLogin ==
    /\ pc = "start_login"
    /\ \/ pc' = "get_wait" /\ UNCHANGED stop_ret
       \/ pc' = "stop_browser" /\ stop_ret' = "start"
    /\ UNCHANGED << scraper, empty_streak, restart_threshold, state, data, event,
                    backoff_seconds, payload, sessVars, model_events,
                    lisVars, pubVars, histVars, consumed,
                    call, fanVars, pureVars >>

\* ------------------------------------------------- HotspotScraper.stop()
\* 531-532: if self._browser: self._browser.close()
StopBrowser ==
    /\ pc = "stop_browser"
    /\ browser' = IF browser = "unset" THEN browser ELSE "closed"
    /\ pc' = "stop_pw"
    /\ UNCHANGED << scraper, empty_streak, restart_threshold, state, data, event,
                    backoff_seconds, payload, stop_ret, pw, page, model_events,
                    lisVars, pubVars, histVars, consumed,
                    call, fanVars, pureVars >>

\* 533-534: if self._pw: self._pw.stop(); then back to the caller: start()'s
\* handler re-raises (433), run() goes on at 611, or run() returns (619).
StopPw ==
    /\ pc = "stop_pw"
    /\ pw' = IF pw = "unset" THEN pw ELSE "stopped"
    /\ pc' = CASE stop_ret = "start" -> "startup_except"
               [] stop_ret = "restart" -> "restart_null"
               [] OTHER -> "returned"
    /\ start_failed' = IF stop_ret = "start" THEN TRUE ELSE start_failed
    /\ stop_ret' = "none"
    /\ UNCHANGED << scraper, empty_streak, restart_threshold, state, data, event,
                    backoff_seconds, payload, browser, page, model_events,
                    lisVars, pubVars, consec, prev_backoff, interrupted, consumed,
                    call, fanVars, pureVars >>

\* ------------------------------------------------- run(): startup failure
\* 558-560: except Exception: empty_streak += 1; SCRAPE_FAILURE_TOTAL.inc().
\* The iteration's state is "startup_error" (the literal passed at 564).
StartupExcept ==
    /\ pc = "startup_except"
    /\ empty_streak' = empty_streak + 1
    /\ failure_inc' = failure_inc + 1
    /\ state' = "startup_error"
    /\ data' = empty_diagnostics
    /\ consec' = consec + 1
    /\ pc' = "startup_publish"
    /\ UNCHANGED << scraper, restart_threshold, event, backoff_seconds, payload, stop_ret,
                    sessVars, model_events, lisVars, gauges, clients, last_broadcast,
                    n_gauges, n_bcast, start_failed, prev_backoff, interrupted, consumed,
                    call, fanVars, pureVars >>

\* 562-568: payload = update_gauges(empty_diagnostics(), "startup_error", ...)
StartupPublish ==
    /\ pc = "startup_publish"
    /\ gauges' = GaugesAfter(gauges, empty_diagnostics, "startup_error", empty_streak)
    /\ payload' = PayloadOf(empty_diagnostics, "startup_error", empty_streak)
    /\ n_gauges' = n_gauges + 1
    /\ pc' = "startup_broadcast"
    /\ UNCHANGED << scraper, empty_streak, restart_threshold, state, data, event,
                    backoff_seconds, stop_ret, sessVars, model_events, lisVars,
                    failure_inc, clients, last_broadcast, n_bcast, histVars, consumed,
                    call, fanVars, pureVars >>

\* Mutant: the startup failure path without its broadcast.
StartupBroadcastSkipped ==
    /\ pc = "startup_broadcast"
    /\ pc' = "startup_backoff"
    /\ UNCHANGED << scraper, empty_streak, restart_threshold, state, data, event,
                    backoff_seconds, payload, stop_ret, sessVars, model_events, lisVars,
                    pubVars, histVars, consumed,
                    call, fanVars, pureVars >>

\* 569: sse_broadcaster.broadcast(payload)
StartupBroadcast ==
    /\ pc = "startup_broadcast"
    /\ mailbox' = BroadcastTo(clients, mailbox, payload)
    /\ last_broadcast' = payload
    /\ n_bcast' = n_bcast + 1
    /\ pc' = "startup_backoff"
    /\ UNCHANGED << scraper, empty_streak, restart_threshold, state, data, event,
                    backoff_seconds, payload, stop_ret, sessVars, model_events, lisVars,
                    gauges, failure_inc, clients, n_gauges, histVars, consumed,
                    call, cursor, handler, sent, stream, pureVars >>

\* 570-572: the backoff from the threshold before it is doubled.
StartupBackoff ==
    /\ pc = "startup_backoff"
    /\ backoff_seconds' = BackoffSeconds(restart_threshold)
    /\ restart_threshold' = NextThreshold(restart_threshold)
    /\ pc' = "startup_sleep"
    /\ UNCHANGED << scraper, empty_streak, state, data, event, payload, stop_ret,
                    sessVars, model_events, lisVars, pubVars, histVars, consumed,
                    call, fanVars, pureVars >>

\* 573-574: time.sleep(backoff_seconds); continue
StartupSleep ==
    /\ pc = "startup_sleep"
    /\ prev_backoff' = backoff_seconds
    /\ pc' = "loop"
    /\ UNCHANGED << scraper, empty_streak, restart_threshold, state, data, event,
                    backoff_seconds, payload, stop_ret, sessVars, model_events, lisVars,
                    pubVars, start_failed, consec, interrupted, consumed,
                    call, fanVars, pureVars >>

\* ------------------------------------------------- get_latest_model_event
\* Mutant: the first event read without being taken off the queue.
GetWaitPeek ==
    /\ pc = "get_wait"
    /\ \/ /\ model_events # << >>
          /\ event' = Some(Head(model_events))
          /\ pc' = "got_event"
       \/ /\ model_events = << >>
          /\ event' = None
          /\ pc' = "got_event"
    /\ call' = [q |-> model_events, pushed |-> pushed, idle |-> l_pc = "idle",
                last |-> call.last]
    /\ UNCHANGED << scraper, empty_streak, restart_threshold, state, data,
                    backoff_seconds, payload, stop_ret, sessVars, lisVars,
                    pubVars, histVars, fanVars, pureVars, model_events, consumed >>

\* 459-461: self._model_events.get(timeout=timeout).  With an event queued
\* it is taken; with none queued for the whole timeout, queue.Empty.
GetWait ==
    /\ pc = "get_wait"
    /\ \/ /\ model_events # << >>
          /\ event' = Some(Head(model_events))
          /\ model_events' = Tail(model_events)
          /\ consumed' = consumed + 1
          /\ pc' = "get_drain"
       \/ /\ model_events = << >>
          /\ event' = None
          /\ pc' = "got_event"
          /\ UNCHANGED << model_events, consumed >>
    /\ call' = [q |-> model_events, pushed |-> pushed, idle |-> l_pc = "idle",
                last |-> call.last]
    /\ UNCHANGED << scraper, empty_streak, restart_threshold, state, data,
                    backoff_seconds, payload, stop_ret, sessVars, lisVars,
                    pubVars, histVars, fanVars, pureVars >>

\* Mutant: the drain loop left after its first get_nowait().
GetDrainOnce ==
    /\ pc = "get_drain"
    /\ \/ /\ model_events # << >>
          /\ event' = Some(Head(model_events))
          /\ model_events' = Tail(model_events)
          /\ consumed' = consumed + 1
          /\ pc' = "got_event"
       \/ /\ model_events = << >>
          /\ pc' = "got_event"
          /\ UNCHANGED << event, model_events, consumed >>
    /\ UNCHANGED << scraper, empty_streak, restart_threshold, state, data,
                    backoff_seconds, payload, stop_ret, sessVars, lisVars,
                    pubVars, histVars, call, fanVars, pureVars >>

\* 464-469: get_nowait() until queue.Empty, keeping the last event taken.
GetDrain ==
    /\ pc = "get_drain"
    /\ \/ /\ model_events # << >>
          /\ event' = Some(Head(model_events))
          /\ model_events' = Tail(model_events)
          /\ consumed' = consumed + 1
          /\ pc' = "get_drain"
       \/ /\ model_events = << >>
          /\ pc' = "got_event"
          /\ UNCHANGED << event, model_events, consumed >>
    /\ UNCHANGED << scraper, empty_streak, restart_threshold, state, data,
                    backoff_seconds, payload, stop_ret, sessVars, lisVars,
                    pubVars, histVars, call, fanVars, pureVars >>

\* ------------------------------------------------- run(): evaluation
\* The history variable consec counts the evaluations in one of the four
\* failure states since the last ok / no_signal evaluation.
ConsecAfter(s, n) ==
    IF s \in {"startup_error", "source_unavailable", "parse_warning", "scrape_error"}
    THEN n + 1 ELSE 0
PrevBackoffAfter(s, b) == IF s \in {"ok", "no_signal"} THEN 0 ELSE b

\* 577-578: the coalesced event is this iteration's sample.
TakeEvent ==
    /\ pc = "got_event" /\ event # None
    /\ data' = event[1].data
    /\ state' = event[1].state
    /\ consec' = ConsecAfter(state', consec)
    /\ prev_backoff' = PrevBackoffAfter(state', prev_backoff)
    /\ pc' = "update_streak"
    /\ UNCHANGED << scraper, empty_streak, restart_threshold, event, backoff_seconds,
                    payload, stop_ret, sessVars, model_events, lisVars, pubVars,
                    start_failed, interrupted, consumed,
                    fanVars, pureVars >>
    /\ call' = NoCall

\* 579-588 with scrape() (514-528): the fallback poll.  scrape() returns the
\* page text, or None when anything in it raised; on an object with no page
\* or a closed browser every call raises.
Scrape ==
    /\ pc = "got_event" /\ event = None
    /\ \/ /\ state' = "scrape_error"
          /\ data' = empty_diagnostics
       \/ /\ browser = "open" /\ page = "ready"
          /\ \E text \in Texts :
                /\ data' = parse_diagnostics(text)
                /\ state' = classify_source_state(text, data')
    /\ consec' = ConsecAfter(state', consec)
    /\ prev_backoff' = PrevBackoffAfter(state', prev_backoff)
    /\ pc' = "update_streak"
    /\ UNCHANGED << scraper, empty_streak, restart_threshold, event, backoff_seconds,
                    payload, stop_ret, sessVars, model_events, lisVars, pubVars,
                    start_failed, interrupted, consumed,
                    fanVars, pureVars >>
    /\ call' = NoCall

\* 590-595
UpdateStreak ==
    /\ pc = "update_streak"
    /\ empty_streak' = StreakAfter(state, empty_streak)
    /\ restart_threshold' = ThresholdAfter(state, restart_threshold)
    /\ failure_inc' = IF IsFailureState(state) THEN failure_inc + 1 ELSE failure_inc
    /\ pc' = "publish"
    /\ UNCHANGED << scraper, state, data, event, backoff_seconds, payload, stop_ret,
                    sessVars, model_events, lisVars, gauges, clients, last_broadcast,
                    n_gauges, n_bcast, histVars, consumed,
                    call, fanVars, pureVars >>

\* 597: payload = update_gauges(data, state, message, empty_streak, heartbeat_now)
Publish ==
    /\ pc = "publish"
    /\ gauges' = GaugesAfter(gauges, data, state, empty_streak)
    /\ payload' = PayloadOf(data, state, empty_streak)
    /\ n_gauges' = n_gauges + 1
    /\ pc' = "broadcast"
    /\ UNCHANGED << scraper, empty_streak, restart_threshold, state, data, event,
                    backoff_seconds, stop_ret, sessVars, model_events, lisVars,
                    failure_inc, clients, last_broadcast, n_bcast, histVars, consumed,
                    call, fanVars, pureVars >>

\* 598: sse_broadcaster.broadcast(payload)
Broadcast ==
    /\ pc = "broadcast"
    /\ mailbox' = BroadcastTo(clients, mailbox, payload)
    /\ last_broadcast' = payload
    /\ n_bcast' = n_bcast + 1
    /\ pc' = "check_restart"
    /\ UNCHANGED << scraper, empty_streak, restart_threshold, state, data, event,
                    backoff_seconds, payload, stop_ret, sessVars, model_events, lisVars,
                    gauges, failure_inc, clients, n_gauges, histVars, consumed,
                    call, cursor, handler, sent, stream, pureVars >>

\* 600-610: the forced restart begins: backoff computed, threshold doubled,
\* scraper.stop() called.
RestartBegin ==
    /\ pc = "check_restart"
    /\ ShouldRestart(state, empty_streak, restart_threshold)
    /\ backoff_seconds' = BackoffSeconds(restart_threshold)
    /\ restart_threshold' = NextThreshold(restart_threshold)
    /\ stop_ret' = "restart"
    /\ pc' = "stop_browser"
    /\ UNCHANGED << scraper, empty_streak, state, data, event, payload,
                    sessVars, model_events, lisVars, pubVars, histVars, consumed,
                    call, fanVars, pureVars >>

\* 600: the condition is false; the iteration ends.
NoRestart ==
    /\ pc = "check_restart"
    /\ ~ShouldRestart(state, empty_streak, restart_threshold)
    /\ pc' = "loop"
    /\ UNCHANGED << scraper, empty_streak, restart_threshold, state, data, event,
                    backoff_seconds, payload, stop_ret, sessVars, model_events, lisVars,
                    pubVars, histVars, consumed,
                    call, fanVars, pureVars >>

\* 611: scraper = None
RestartNull ==
    /\ pc = "restart_null"
    /\ scraper' = "None"
    /\ pc' = "restart_sleep"
    /\ UNCHANGED << empty_streak, restart_threshold, state, data, event,
                    backoff_seconds, payload, stop_ret, sessVars, model_events, lisVars,
                    pubVars, histVars, consumed,
                    call, fanVars, pureVars >>

\* 612-613: time.sleep(backoff_seconds); continue
RestartSleep ==
    /\ pc = "restart_sleep"
    /\ prev_backoff' = backoff_seconds
    /\ pc' = "loop"
    /\ UNCHANGED << scraper, empty_streak, restart_threshold, state, data, event,
                    backoff_seconds, payload, stop_ret, sessVars, model_events, lisVars,
                    pubVars, start_failed, consec, interrupted, consumed,
                    call, fanVars, pureVars >>

\* ------------------------------------------------- run(): interruption
InLoop ==
    pc \notin {"finally", "returned"} /\ ~(pc \in {"stop_browser", "stop_pw"} /\ stop_ret = "finally")

\* KeyboardInterrupt raised at the controller's current position.  It is no
\* Exception, so neither start()'s handler (431) nor run()'s (558) nor
\* scrape()'s (526) catches it: control goes to 615 and on to the finally.
Interrupt ==
    /\ InLoop
    /\ interrupted' = TRUE
    /\ stop_ret' = "none"
    /\ pc' = "finally"
    /\ UNCHANGED << scraper, empty_streak, restart_threshold, state, data, event,
                    backoff_seconds, payload, sessVars, model_events, lisVars,
                    pubVars, start_failed, consec, prev_backoff, consumed,
                    call, fanVars, pureVars >>

\* 617-619: finally: if scraper is not None: scraper.stop()
FinallySkip ==
    /\ pc = "finally" /\ scraper = "None"
    /\ pc' = "returned"
    /\ UNCHANGED << scraper, empty_streak, restart_threshold, state, data, event,
                    backoff_seconds, payload, stop_ret, sessVars, model_events, lisVars,
                    pubVars, histVars, consumed,
                    call, fanVars, pureVars >>

\* Mutant: run() returns without the finally's stop().
FinallyStopSkipped ==
    /\ pc = "finally" /\ scraper # "None"
    /\ pc' = "returned"
    /\ UNCHANGED << scraper, empty_streak, restart_threshold, state, data, event,
                    backoff_seconds, payload, stop_ret, sessVars, model_events, lisVars,
                    pubVars, histVars, consumed,
                    call, fanVars, pureVars >>

FinallyStop ==
    /\ pc = "finally" /\ scraper # "None"
    /\ stop_ret' = "finally"
    /\ pc' = "stop_browser"
    /\ UNCHANGED << scraper, empty_streak, restart_threshold, state, data, event,
                    backoff_seconds, payload, sessVars, model_events, lisVars,
                    pubVars, histVars, consumed,
                    call, fanVars, pureVars >>

\* ------------------------------------------------- _on_response
RECURSIVE EvictOldest(_)
\* 447-451 run without interruption: get_nowait() while qsize() >= 4.
EvictOldest(q) == IF QueueFull(q) /\ q # << >> THEN EvictOldest(Tail(q)) ELSE q

\* 452-455: put_nowait(); queue.Full (maxsize 32) drops the event.
PutNowait(q, e) == IF Len(q) < QUEUE_MAXSIZE THEN Append(q, e) ELSE q

\* 443-445: the event built from a response of /api/model.json whose body
\* parses; its id stands for event_time, the arrival order.
EventOf(model, n) ==
    LET r == parse_model_payload(model)
    IN  [id |-> n, data |-> r.data, state |-> r.state]

\* The callback is registered on the page (428) and runs while its browser
\* is open.  Responses of other URLs, or with no JSON body, return at 437
\* or 441 and change nothing.
Listening == page = "ready" /\ browser = "open"

\* 435-455 as one step.  The sync Playwright API dispatches the callback on
\* the controller's own thread while that thread is inside a Playwright
\* call, so the handler runs to its end between two controller steps.
OnResponse ==
    /\ l_pc = "idle" /\ Listening /\ pushed < MaxCtlPushes
    /\ \E model \in ModelPayloads :
          model_events' = PutNowait(EvictOldest(model_events), EventOf(model, pushed + 1))
    /\ pushed' = pushed + 1
    /\ UNCHANGED << ctlVars, sessVars, l_pc, l_event, pubVars, histVars, consumed,
                    call, fanVars, pureVars >>

\* 435-455 step by step, for a listener that runs on a thread of its own:
\* every queue operation is one step.
\* 436-445
OnResponseBegin ==
    /\ l_pc = "idle" /\ Listening /\ pushed < MaxPushes
    /\ \E model \in QueuePayloads : l_event' = EventOf(model, pushed + 1)
    /\ pushed' = pushed + 1
    /\ l_pc' = "qsize"
    /\ UNCHANGED << ctlVars, sessVars, model_events, pubVars, histVars, consumed,
                    call, fanVars, pureVars >>

\* 447: while self._model_events.qsize() >= 4
OnResponseQsize ==
    /\ l_pc = "qsize"
    /\ l_pc' = IF QueueFull(model_events) THEN "evict" ELSE "put"
    /\ UNCHANGED << ctlVars, sessVars, model_events, l_event, pushed, pubVars,
                    histVars, consumed,
                    call, fanVars, pureVars >>

\* 448-451: get_nowait(); queue.Empty leaves the loop.
OnResponseEvict ==
    /\ l_pc = "evict"
    /\ \/ /\ model_events # << >>
          /\ model_events' = Tail(model_events)
          /\ l_pc' = "qsize"
       \/ /\ model_events = << >>
          /\ l_pc' = "put"
          /\ UNCHANGED model_events
    /\ UNCHANGED << ctlVars, sessVars, l_event, pushed, pubVars, histVars, consumed,
                    call, fanVars, pureVars >>

\* 452-455
OnResponsePut ==
    /\ l_pc = "put"
    /\ model_events' = PutNowait(model_events, l_event)
    /\ l_pc' = "idle"
    /\ UNCHANGED << ctlVars, sessVars, l_event, pushed, pubVars, histVars, consumed,
                    call, fanVars, pureVars >>

\* ------------------------------------------------- SSEBroadcaster
\* Everything but the fan-out's own state.
restVars == << pc, scraper, empty_streak, restart_threshold, state, data, event,
               backoff_seconds, stop_ret, sessVars, model_events, lisVars,
               gauges, failure_inc, last_broadcast, n_gauges, n_bcast, histVars,
               consumed, call, pureVars >>

\* self._lock is held by broadcast() from its first to its last step;
\* subscribe() and unsubscribe() hold it for their single step.
LockFree == cursor = 0

\* 126 with subscribe() (90-93): a stream connects; its handler thread
\* makes a queue of capacity 8 and appends it to self._clients.  Handlers
\* are numbered in the order in which they subscribe.
Subscribe(h) ==
    /\ handler[h] = "none" /\ LockFree
    /\ \A k \in Handlers : k < h => handler[k] # "none"
    /\ mailbox' = [mailbox EXCEPT ![h] = << >>]
    /\ clients' = Append(clients, h)
    /\ handler' = [handler EXCEPT ![h] = "subscribing"]
    /\ stream' = [stream EXCEPT ![h] = [last |-> sent, early |-> "no"]]
    /\ UNCHANGED << restVars, payload, cursor, sent >>

\* 94 and 126: subscribe() returns the queue after it has released the lock;
\* a broadcast can have run in between.
SubscribeReturn(h) ==
    /\ handler[h] = "subscribing"
    /\ handler' = [handler EXCEPT ![h] = "streaming"]
    /\ stream' = [stream EXCEPT ![h].early =
                     IF mailbox[h] = << >> THEN "no" ELSE "waiting"]
    /\ UNCHANGED << restVars, payload, clients, mailbox, cursor, sent >>

\* 128-135: q.get(timeout=15) takes the oldest event of the handler's own
\* mailbox and writes it to the stream (queue.Empty writes a keepalive and
\* changes nothing).
Read(h) ==
    /\ handler[h] = "streaming" /\ mailbox[h] # << >>
    /\ mailbox' = [mailbox EXCEPT ![h] = Tail(@)]
    /\ stream' = [stream EXCEPT ![h] =
                     [last  |-> Head(mailbox[h]).empty_streak,
                      early |-> IF @.early = "waiting" THEN "read" ELSE "no"]]
    /\ UNCHANGED << restVars, payload, clients, cursor, handler, sent >>

\* 136-137: a write raises BrokenPipeError / ConnectionResetError / OSError;
\* the handler leaves its loop with the finally still to run; it reads no
\* more, and its read history is dropped.
Disconnect(h) ==
    /\ handler[h] = "streaming"
    /\ handler' = [handler EXCEPT ![h] = "closing"]
    /\ stream' = [stream EXCEPT ![h] = [last |-> 0, early |-> "no"]]
    /\ UNCHANGED << restVars, payload, clients, mailbox, cursor, sent >>

\* Mutant: unsubscribe() leaving the queue on self._clients.
UnsubscribeKeepsClient(h) ==
    /\ handler[h] = "closing" /\ LockFree
    /\ handler' = [handler EXCEPT ![h] = "done"]
    /\ mailbox' = [mailbox EXCEPT ![h] = << >>]
    /\ UNCHANGED << restVars, payload, clients, cursor, sent, stream >>

\* 138-139 with unsubscribe() (96-98): the queue is taken off self._clients;
\* do_GET returns and nothing refers to the queue any more.
Unsubscribe(h) ==
    /\ handler[h] = "closing" /\ LockFree
    /\ clients' = SelectSeq(clients, LAMBDA c : c # h)
    /\ handler' = [handler EXCEPT ![h] = "done"]
    /\ mailbox' = [mailbox EXCEPT ![h] = << >>]
    /\ UNCHANGED << restVars, payload, cursor, sent, stream >>

\* 100-102: the controller calls broadcast(payload): json.dumps, the lock
\* taken.  The samples are those of consecutive failed fallback scrapes,
\* which differ in their empty_streak.
BroadcastBegin ==
    /\ LockFree /\ sent < MaxSent
    /\ payload' = PayloadOf(empty_diagnostics, "scrape_error", sent + 1)
    /\ sent' = sent + 1
    /\ cursor' = 1
    /\ UNCHANGED << restVars, clients, mailbox, handler, stream >>

\* Mutant: queue.Full not caught: the loop over the clients ends at the
\* first full mailbox.
BroadcastPutStopsAtFull ==
    /\ cursor \in 1..Len(clients)
    /\ mailbox' = [mailbox EXCEPT ![clients[cursor]] = MailboxPut(@, payload)]
    /\ cursor' = IF Len(mailbox[clients[cursor]]) < MAILBOX_MAXSIZE
                  THEN cursor + 1 ELSE Len(clients) + 1
    /\ UNCHANGED << restVars, payload, clients, handler, sent, stream >>

\* 103-107: one turn of the loop: q.put_nowait(payload), queue.Full passed.
BroadcastPut ==
    /\ cursor \in 1..Len(clients)
    /\ mailbox' = [mailbox EXCEPT ![clients[cursor]] = MailboxPut(@, payload)]
    /\ cursor' = cursor + 1
    /\ UNCHANGED << restVars, payload, clients, handler, sent, stream >>

\* 102: the loop is over, the lock released, broadcast() returns.
BroadcastEnd ==
    /\ cursor = Len(clients) + 1
    /\ cursor' = 0
    /\ UNCHANGED << restVars, payload, clients, mailbox, handler, sent, stream >>

\* ------------------------------------------------- the parsers on their own
\* Everything but the argument and the result of the function called.
nonPureVars == << pc, scraper, empty_streak, restart_threshold, state, data, event,
                  backoff_seconds, payload, stop_ret, sessVars, model_events, lisVars,
                  pubVars, histVars, consumed, call, fanVars >>

\* Raw JSON values of every kind _extract_metric_value tells apart: valid
\* readings, the four sentinels, the edges of [-300, 300], strings.
RawSamples ==
    { RawNone, Raw("blank", 0), Raw("garbage", 0), Raw("other", 0),
      Raw("numstr", -95), Raw("numstr", -32768), Raw("numstr", 301) }
    \cup { Raw("num", n) : n \in {-32768, -3276, -301, -300, -95, 0, 12, 300, 301,
                                   3276, 32767} }

\* Fewer of them, for whole payloads.
RawFew ==
    { RawNone, Raw("blank", 0), Raw("garbage", 0), Raw("num", -95),
      Raw("num", -32768), Raw("num", 301) }

\* Payloads whose wwan section carries four metric keys of three groups
\* (two candidates of lte_rsrp, lte_snr, nr_rsrp) and the band / service
\* type strings; a payload that is no mapping; one without wwan.
ParserPayloads ==
    { [Wwan([NoDiag EXCEPT !["ltesigRsrp"] = r1],
            [NoSignal EXCEPT !["rsrp"] = r2, !["snr"] = r3, !["nr5gRSRP"] = r4],
            curBand, ps) EXCEPT !.advBand = adv, !.nw = nw] :
        r1 \in RawFew, r2 \in RawFew, r3 \in RawFew, r4 \in RawFew,
        curBand \in {"", "B66"}, ps \in {"", "5G"}, adv \in {"", "n41"},
        nw \in {"", "LTE"} }
    \cup { [Wwan(NoDiag, NoSignal, "", "") EXCEPT !.isdict = FALSE, !.haswwan = FALSE],
           [Wwan(NoDiag, NoSignal, "", "") EXCEPT !.haswwan = FALSE] }

\* Lines a diagnostics page, a login page or an error page can show.
LinePool ==
    { Line("LTE RSRP", "-95 dBm", "LTE RSRP -95 dBm", "num", -95, "dBm", FALSE),
      Line("LTE RSRP", "-95", "LTE RSRP -95", "num", -95, "", FALSE),
      Line("LTE RSRP", ": N/A", "LTE RSRP: N/A", "text", 0, "", TRUE),
      Line("5G RS-SNR", "12 dB", "5G RS-SNR 12 dB", "num", 12, "dB", FALSE),
      Line("Current Radio Band", "LTE B66", "Current Radio Band LTE B66", "text", 0, "", FALSE),
      Line("PS Service Type", "", "PS Service Type", "text", 0, "", FALSE),
      Line("lte rsrp", "-95 dBm", "lte rsrp -95 dBm", "num", -95, "dBm", FALSE),
      Line("Login", "", "Login", "text", 0, "", FALSE),
      Line("", "", "Signal n/a", "text", 0, "", TRUE) }

\* Page texts of up to two lines.
ParserTexts ==
    { << >> } \cup { << a >> : a \in LinePool }
    \cup { << a, b >> : a \in LinePool, b \in LinePool }

\* Readings around the range each clamp of quality_score keeps, or None.
SnrReadings == { None } \cup { Some(n) : n \in (-5 - Margin)..(20 + Margin) }
RsrqReadings == { None } \cup { Some(n) : n \in (-20 - Margin)..(-3 + Margin) }
RsrpReadings == { None } \cup { Some(n) : n \in (-120 - Margin)..(-80 + Margin) }

ReadingsOf(k) ==
    CASE k = "snr" -> SnrReadings
      [] k = "rsrq" -> RsrqReadings
      [] k = "rsrp" -> RsrpReadings

\* One of the parser functions is about to be called on one argument.
InitParser ==
    /\ InitRun
    /\ ret = NoArg
    /\ \/ fn = "parse_model_payload" /\ arg \in { [model |-> m] : m \in ParserPayloads }
       \/ fn = "classify_source_state" /\ arg \in { [text |-> t] : t \in ParserTexts }
       \/ fn = "_extract_metric_value" /\ arg \in { [raw |-> r] : r \in RawSamples }
       \/ fn = "_pick_metric"
          /\ arg \in { [candidates |-> << a, b, c >>] :
                          a \in RawSamples, b \in RawSamples, c \in RawSamples }
       \/ fn = "quality_score"
          /\ arg \in { [snr |-> a, rsrq |-> b, rsrp |-> c] :
                          a \in SnrReadings, b \in RsrqReadings, c \in RsrpReadings }

\* 280-338
CallParseModelPayload ==
    /\ fn = "parse_model_payload" /\ ret = NoArg
    /\ ret' = parse_model_payload(arg.model)
    /\ UNCHANGED << nonPureVars, fn, arg >>

\* 587-588: data = parse_diagnostics(text);
\* state, message = classify_source_state(text, data)
CallClassifySourceState ==
    /\ fn = "classify_source_state" /\ ret = NoArg
    /\ ret' = [data |-> parse_diagnostics(arg.text),
               state |-> classify_source_state(arg.text, parse_diagnostics(arg.text))]
    /\ UNCHANGED << nonPureVars, fn, arg >>

\* 239-265
CallExtractMetricValue ==
    /\ fn = "_extract_metric_value" /\ ret = NoArg
    /\ ret' = _extract_metric_value(arg.raw)
    /\ UNCHANGED << nonPureVars, fn, arg >>

\* 268-277
CallPickMetric ==
    /\ fn = "_pick_metric" /\ ret = NoArg
    /\ ret' = _pick_metric(arg.candidates)
    /\ UNCHANGED << nonPureVars, fn, arg >>

\* 170-183
CallQualityScore ==
    /\ fn = "quality_score" /\ ret = NoArg
    /\ ret' = [score |-> quality_score(arg.snr, arg.rsrq, arg.rsrp)]
    /\ UNCHANGED << nonPureVars, fn, arg >>

\* 170-183: quality_score called again with one reading one unit higher
\* and the other two as they were.
CallQualityScoreRaised(k) ==
    /\ fn = "quality_score" /\ ret # NoArg
    /\ arg[k] # None
    /\ Some(arg[k][1] + 1) \in ReadingsOf(k)
    /\ arg' = [arg EXCEPT ![k] = Some(@[1] + 1)]
    /\ ret' = [score |-> quality_score(arg'.snr, arg'.rsrq, arg'.rsrp)]
    /\ UNCHANGED << nonPureVars, fn >>

\* ------------------------------------------------- specifications
\* The steps of the while loop (549-613) and of the calls it makes.
ControllerLoop ==
    \/ LoopNoSession \/ LoopWithSession
    \/ StartPw \/ StartLaunch \/ StartPage \/ StartLogin
    \/ StopBrowser \/ StopPw
    \/ StartupExcept \/ StartupPublish \/ StartupBroadcast \/ StartupBackoff \/ StartupSleep
    \/ GetWait \/ GetDrain \/ TakeEvent \/ Scrape
    \/ UpdateStreak \/ Publish \/ Broadcast
    \/ RestartBegin \/ NoRestart \/ RestartNull \/ RestartSleep

Next == ControllerLoop \/ Interrupt \/ FinallySkip \/ FinallyStop \/ OnResponse

\* The controller loop with the response callback and the interruption.
Spec == Init /\ [][Next]_vars

NextRunning == ControllerLoop \/ OnResponse

\* The loop that keeps running: no interruption arrives, and the controller
\* thread always takes its next step, since every blocking call of run()
\* (queue.get, the page calls, time.sleep) ends by itself.
LiveSpec == Init /\ [][NextRunning]_vars /\ WF_vars(ControllerLoop)

\* The event queue alone: a live session, a listener thread and a consumer
\* that calls get_latest_model_event again and again.
InitQueue ==
    /\ pc = "get_wait"
    /\ scraper = "obj"
    /\ empty_streak = 0 /\ restart_threshold = INITIAL_THRESHOLD
    /\ state = "none" /\ data = empty_diagnostics /\ event = None
    /\ backoff_seconds = 0
    /\ payload = PayloadOf(empty_diagnostics, "none", 0)
    /\ pw = "running" /\ browser = "open" /\ page = "ready"
    /\ model_events = << >>
    /\ stop_ret = "none"
    /\ l_pc = "idle" /\ l_event = NoEvent /\ pushed = 0
    /\ gauges = InitialGauges /\ failure_inc = 0
    /\ InitFanout /\ call = NoCall /\ InitNoArg
    /\ last_broadcast = PayloadOf(empty_diagnostics, "none", 0)
    /\ n_gauges = 0 /\ n_bcast = 0
    /\ start_failed = FALSE /\ consec = 0 /\ prev_backoff = 0
    /\ interrupted = FALSE /\ consumed = 0

\* The caller takes the result and calls get_latest_model_event again.
\* call.last keeps the arrival number of the last event a call returned.
CallAgain ==
    /\ pc = "got_event"
    /\ pc' = "get_wait"
    /\ UNCHANGED << scraper, empty_streak, restart_threshold, state, data, event,
                    backoff_seconds, payload, stop_ret, sessVars, model_events, lisVars,
                    pubVars, histVars, consumed,
                    fanVars, pureVars >>
    /\ call' = [NoCall EXCEPT !.last = IF event # None THEN event[1].id ELSE call.last]

NextQueue ==
    \/ OnResponseBegin \/ OnResponseQsize \/ OnResponseEvict \/ OnResponsePut
    \/ GetWait \/ GetDrain \/ CallAgain

QueueSpec == InitQueue /\ [][NextQueue]_vars

NextFanout ==
    \/ \E h \in Handlers : Subscribe(h)
    \/ \E h \in Handlers : SubscribeReturn(h)
    \/ \E h \in Handlers : Read(h)
    \/ \E h \in Handlers : Disconnect(h)
    \/ \E h \in Handlers : Unsubscribe(h)
    \/ BroadcastBegin \/ BroadcastPut \/ BroadcastEnd

\* The fan-out alone: the controller broadcasting, stream handlers
\* connecting, reading and disconnecting, each on a thread of its own.
FanoutSpec == Init /\ [][NextFanout]_vars

NextParser ==
    \/ CallParseModelPayload \/ CallClassifySourceState
    \/ CallExtractMetricValue \/ CallPickMetric
    \/ CallQualityScore
    \/ \E k \in {"snr", "rsrq", "rsrp"} : CallQualityScoreRaised(k)

\* The parser functions called on their own, each on every argument of a
\* bounded set.
ParserSpec == InitParser /\ [][NextParser]_vars

\* ------------------------------------------------- claims
RestartStates == {"source_unavailable", "parse_warning", "scrape_error"}
SuccessStates == {"ok", "no_signal"}
\* the controller is inside get_latest_model_event or about to scrape
Polling == pc \in {"get_wait", "get_drain", "got_event"}
\* a step of run() that starts the forced restart (600-610)
RestartStep == stop_ret # "restart" /\ stop_ret' = "restart"
\* run() is inside the scraper.stop() of a forced restart (610)
InRestartStop == pc \in {"stop_browser", "stop_pw"} /\ stop_ret = "restart"
\* run() is inside the self.stop() of start()'s handler (432)
InStartCleanup == pc \in {"stop_browser", "stop_pw"} /\ stop_ret = "start"
\* exactly one sample of this iteration's state is in the registry and was
\* broadcast
PublishedOnce ==
    /\ n_gauges = 1 /\ n_bcast = 1
    /\ gauges.SOURCE_STATUS = state
    /\ gauges.SOURCE_STATE_CODE = SOURCE_STATE_CODES[state]
    /\ last_broadcast.source_state = state

\* C1: after start() fails in an iteration the controller holds no session
\* at the next loop head, and it never waits for an event or scrapes on an
\* object whose start failed.
C1_FailedStartLeavesNoSession ==
    /\ (pc = "loop" /\ start_failed => scraper = "None")
    /\ (Polling => ~start_failed)

\* C2: the forced restart begins exactly when the evaluated state is
\* source_unavailable, parse_warning or scrape_error and empty_streak >=
\* restart_threshold; it doubles the threshold (cap 60), the handle becomes
\* absent and the next iteration starts a fresh session; with threshold 5
\* it happens on the fifth consecutive failure evaluation, leaving 10.
C2_RestartIffThreshold ==
    [][ /\ RestartStep =>
              /\ pc = "check_restart"
              /\ state \in RestartStates /\ empty_streak >= restart_threshold
              /\ restart_threshold' = Min(2 * restart_threshold, 60)
              /\ (restart_threshold = 5 =>
                      empty_streak = 5 /\ consec = 5 /\ restart_threshold' = 10)
        /\ (pc = "check_restart" /\ pc' # pc /\ ~interrupted'
              /\ state \in RestartStates /\ empty_streak >= restart_threshold)
            => RestartStep
        /\ (pc = "restart_null" /\ pc' # pc /\ ~interrupted') =>
              scraper' = "None" /\ browser # "open" /\ pw # "running"
        /\ (pc = "loop" /\ scraper = "None" /\ pc' # "loop" /\ ~interrupted') =>
              pc' = "start_pw" /\ scraper' = "obj" /\ model_events' = << >>
      ]_vars

\* C2 witness: the restart of the fifth consecutive source_unavailable.
C2_Witness ==
    /\ pc = "restart_null" /\ state = "source_unavailable"
    /\ empty_streak = 5 /\ restart_threshold = 10

\* C3: at the end of every iteration empty_streak is the number of failure
\* evaluations since the last ok / no_signal evaluation; only the two
\* evaluation steps change it, by +1 on a failure state and to 0 otherwise.
C3_StreakCountsConsecutiveFailures ==
    /\ [](pc = "loop" => empty_streak = consec)
    /\ [][ empty_streak' # empty_streak =>
             \/ pc = "startup_except" /\ empty_streak' = empty_streak + 1
             \/ /\ pc = "update_streak"
                /\ empty_streak' = IF state \in SuccessStates THEN 0 ELSE empty_streak + 1
         ]_vars

\* C3 witness: the streak went on counting through a forced restart.
C3_Witness ==
    /\ pc = "loop" /\ scraper = "None"
    /\ empty_streak = 10 /\ consec = 10 /\ restart_threshold = 20

\* C4: restart_threshold is always one of 5, 10, 20, 40, 60; it is doubled
\* (cap 60) exactly by a forced restart and by a failed session start, set
\* to 5 by every ok / no_signal evaluation and left alone by a failure
\* evaluation and by an iteration that does not restart.
C4_ThresholdLadder ==
    /\ [](restart_threshold \in {5, 10, 20, 40, 60})
    /\ [][ /\ restart_threshold' # restart_threshold =>
                \/ /\ RestartStep \/ pc = "startup_backoff"
                   /\ restart_threshold' = Min(2 * restart_threshold, 60)
                \/ /\ pc = "update_streak" /\ state \in SuccessStates
                   /\ restart_threshold' = 5
           /\ (RestartStep \/ (pc = "startup_backoff" /\ pc' = "startup_sleep")) =>
                restart_threshold' = Min(2 * restart_threshold, 60)
           /\ (pc = "update_streak" /\ pc' = "publish") =>
                restart_threshold' = IF state \in SuccessStates THEN 5 ELSE restart_threshold
         ]_vars

\* C4 witness: a forced restart at the cap leaves the threshold at 60.
C4_Witness ==
    /\ pc = "restart_null" /\ restart_threshold = 60 /\ empty_streak = 60

\* C5: a backoff sleep is never shorter than the previous one slept since
\* the last ok / no_signal evaluation and never longer than 60 s; the
\* first sleep after such an evaluation is the floor min(SCRAPE_INTERVAL, 60).
C5_BackoffMonotone ==
    [][ (pc \in {"startup_sleep", "restart_sleep"} /\ pc' = "loop") =>
            /\ backoff_seconds >= prev_backoff
            /\ backoff_seconds <= 60
            /\ (prev_backoff = 0 => backoff_seconds = Min(SCRAPE_INTERVAL, 60))
      ]_vars

\* C5 witness: a 60 s sleep about to follow a 40 s sleep.
C5_Witness ==
    /\ pc = "restart_sleep" /\ backoff_seconds = 60 /\ prev_backoff = 40

\* C6 as stated: every iteration publishes exactly one sample of its state
\* to the registry and to the broadcast before any session teardown or
\* backoff sleep of that iteration, and only interruption ends the loop.
C6_PublishedBeforeAnyTeardown ==
    /\ n_gauges <= 1 /\ n_bcast <= 1
    /\ (pc = "loop" /\ state # "none" => PublishedOnce)
    /\ (pc \in {"startup_sleep", "restart_sleep", "restart_null"} => PublishedOnce)
    /\ (InRestartStop \/ InStartCleanup => PublishedOnce)
    /\ (pc \in {"finally", "returned"} \/ stop_ret = "finally" => interrupted)

\* C6 amended: ... before the forced-restart teardown and before any backoff
\* sleep of that iteration; the release of a session whose start failed
\* runs inside start(), before startup_error is published.
C6_PublishedBeforeRestartAndSleep ==
    /\ n_gauges <= 1 /\ n_bcast <= 1
    /\ (pc = "loop" /\ state # "none" => PublishedOnce)
    /\ (pc \in {"startup_sleep", "restart_sleep", "restart_null"} => PublishedOnce)
    /\ (InRestartStop => PublishedOnce)
    /\ (InStartCleanup => n_gauges = 0 /\ n_bcast = 0)
    /\ (pc \in {"finally", "returned"} \/ stop_ret = "finally" => interrupted)

\* C6 witness: startup_error is published and the backoff sleep is next.
C6_Witness ==
    /\ pc = "startup_sleep" /\ state = "startup_error"
    /\ last_broadcast.source_state = "startup_error"
    /\ gauges.SOURCE_STATE_CODE = 5 /\ browser = "closed"

\* C7: a no_signal evaluation sets empty_streak to 0 and restart_threshold
\* to 5, leaves the failure counter alone, is published with
\* scrape_success = 1 and never starts a forced restart.
C7_NoSignalIsSuccess ==
    /\ []((state = "no_signal" /\ pc \in {"broadcast", "check_restart"}) =>
              /\ payload.scrape_success = 1 /\ gauges.SCRAPE_SUCCESS = 1
              /\ payload.source_state = "no_signal" /\ payload.empty_streak = 0
              /\ empty_streak = 0 /\ restart_threshold = 5 /\ failure_inc = 0)
    /\ [][ /\ (state = "no_signal" /\ pc = "update_streak" /\ pc' = "publish") =>
                /\ empty_streak' = 0 /\ restart_threshold' = 5
                /\ failure_inc' = failure_inc
           /\ (state = "no_signal" /\ pc = "check_restart") => ~RestartStep
         ]_vars

\* C7 witness: no_signal published as a success on a threshold that an
\* earlier restart had raised.
C7_Witness ==
    /\ pc = "check_restart" /\ state = "no_signal"
    /\ last_broadcast.source_state = "no_signal" /\ last_broadcast.scrape_success = 1
    /\ gauges.SCRAPE_SUCCESS = 1 /\ prev_backoff = 0 /\ backoff_seconds = 10

\* C8: while the loop keeps running, once a failure evaluation is counted
\* on the session the controller holds, the controller reaches a forced
\* restart unless an ok / no_signal evaluation comes first; and after the
\* teardown it creates the next session (while the model's streak bound
\* lets it loop).
C8_PersistentFailureRestarts ==
    /\ (pc = "publish" /\ state \in RestartStates)
          ~> \/ pc = "restart_null"
             \/ pc = "update_streak" /\ state \in SuccessStates
    /\ (pc = "restart_null" /\ empty_streak < MaxStreak)
          ~> pc = "start_pw"

\* C8 witness: the session is being re-created after a forced restart.
C8_Witness ==
    /\ pc = "start_pw" /\ empty_streak = 5 /\ restart_threshold = 10
    /\ state = "scrape_error"

\* C9: when run() has returned, no playwright driver is running and no
\* browser is open, wherever the interruption arrived.
C9_ReleasedOnReturn ==
    pc = "returned" => pw # "running" /\ browser # "open"

\* C9 witness: run() returned after the finally released a started session.
C9_Witness ==
    /\ pc = "returned" /\ interrupted /\ scraper = "obj" /\ ~start_failed
    /\ pw = "stopped" /\ browser = "closed" /\ page = "ready"

\* C10: the queue never holds more than 4 events; it holds consecutive
\* arrivals in arrival order; whenever the listener has finished a push and
\* the queue is not empty, the newest event is its last element; put_nowait
\* never drops; with nothing consumed it holds the min(pushed, 4) newest.
C10_BoundedNewestKept ==
    /\ [](/\ Len(model_events) <= 4
          /\ \A i \in 1..(Len(model_events) - 1) :
                model_events[i + 1].id = model_events[i].id + 1
          /\ (l_pc = "idle" /\ model_events # << >>) =>
                model_events[Len(model_events)].id = pushed
          /\ (l_pc = "idle" /\ consumed = 0) => Len(model_events) = Min(pushed, 4))
    /\ [][ (l_pc = "put" /\ l_pc' = "idle") =>
              model_events' = Append(model_events, l_event) ]_vars

\* C10 witness: five pushes, nothing consumed: events 2..5 are queued.
C10_Witness ==
    /\ l_pc = "idle" /\ pushed = 5 /\ consumed = 0
    /\ Len(model_events) = 4
    /\ model_events[1].id = 2 /\ model_events[4].id = 5

\* the ids of the events in a queue
IdsOf(q) == {q[i].id : i \in 1..Len(q)}
\* get_latest_model_event has returned to its caller
Returned == pc = "got_event"
\* no step of the listener fell between the call's get() and its return
NoPushDuringCall == call.idle /\ l_pc = "idle" /\ pushed = call.pushed

\* C11: get_latest_model_event returns None exactly when its get() finds no
\* event within the timeout.  Otherwise the event it returns was queued, no
\* event left in the queue is as old as it, and, when no push is concurrent
\* with the call, it is the most recently queued event, every older event
\* that was queued is gone and the queue is empty.
C11_LatestOrAbsent ==
    /\ [][ (pc = "get_wait" /\ pc' # pc) =>
              /\ (event' = None) <=> (model_events = << >>)
              /\ (event' = None) => pc' = "got_event" ]_vars
    /\ []((Returned /\ event = None) => call.q = << >>)
    /\ []((Returned /\ event # None) =>
              /\ call.q # << >>
              /\ event[1].id \in 1..pushed
              /\ \A n \in IdsOf(model_events) : n > event[1].id
              /\ NoPushDuringCall =>
                    /\ event[1] = call.q[Len(call.q)]
                    /\ event[1].id = pushed
                    /\ \A n \in IdsOf(call.q) : n <= event[1].id
                    /\ model_events = << >>)

\* C11 witness: a burst of three queued events was coalesced into the
\* newest one with no push under way.
C11_Witness ==
    /\ Returned /\ event # None /\ NoPushDuringCall
    /\ Len(call.q) = 3 /\ event[1].id = 3 /\ pushed = 3 /\ consumed = 3
    /\ model_events = << >>

\* broadcast() is inside its loop, about to put to the queue of clients[cursor]
Putting == cursor \in 1..Len(clients)

\* C12: no mailbox ever holds more than 8 events; broadcast never waits for
\* a mailbox: inside its loop its next step can always be taken; a put to
\* a full mailbox leaves that mailbox as it is, a put to a mailbox with room
\* appends the event, no other mailbox changes, and the loop goes on to
\* the next client until every registered client has had its turn.
C12_BroadcastNeverBlocksDropsPerClient ==
    /\ [](\A h \in Handlers : Len(mailbox[h]) <= 8)
    /\ [](Putting => ENABLED BroadcastPut)
    /\ []((cursor # 0 /\ ~Putting) => ENABLED BroadcastEnd)
    /\ [][ /\ (Putting /\ cursor' # cursor) =>
                LET h == clients[cursor]
                IN  /\ Len(mailbox[h]) < 8 => mailbox'[h] = Append(mailbox[h], payload)
                    /\ Len(mailbox[h]) >= 8 => mailbox'[h] = mailbox[h]
                    /\ \A k \in Handlers : k # h => mailbox'[k] = mailbox[k]
                    /\ cursor' = cursor + 1
           /\ (cursor # 0 /\ cursor' = 0) => cursor = Len(clients) + 1
           /\ cursor # 0 => clients' = clients
         ]_vars

\* C12 witness: the ninth broadcast is over; the first subscriber's mailbox
\* was full and keeps events 1..8, the second subscriber got the ninth.
C12_Witness ==
    /\ cursor = 0 /\ sent = 9 /\ clients = << 1, 2 >>
    /\ Len(mailbox[1]) = 8 /\ mailbox[1][8].empty_streak = 8
    /\ mailbox[2] # << >> /\ mailbox[2][Len(mailbox[2])].empty_streak = 9

\* a metric is absent or a reading that is no sentinel and within [-300, 300]
ValidOrAbsent(v) ==
    v = None \/ (v[1] \notin {-32768, -3276, 32767, 3276} /\ v[1] >= -300 /\ v[1] <= 300)

\* C13: in every sample the controller publishes, from the event path or
\* from the fallback text scrape, each of the six metrics is absent or a
\* valid, in-range, non-sentinel reading, in the payload and in the gauges.
C13_PublishedMetricsValid ==
    /\ \A m \in NUMERIC_FIELDS : ValidOrAbsent(payload[m])
    /\ \A g \in {"LTE_RSRP", "LTE_RSRQ", "LTE_SNR", "NR_RSRP", "NR_RSRQ", "NR_SNR"} :
          gauges[g].nan \/ ValidOrAbsent(Some(gauges[g].v))

\* a sample has been published
Published == payload.source_state # "none"
\* the published sample has none of the three LTE / 5G quality components
NoLteComponent ==
    payload.lte_snr = None /\ payload.lte_rsrq = None /\ payload.lte_rsrp = None
NoNrComponent ==
    payload.nr_snr = None /\ payload.nr_rsrq = None /\ payload.nr_rsrp = None
\* what is published for a measured quality score of zero
MeasuredZero == QualityOf(Some(0))

\* C14 as stated: the lte_quality / nr_quality published for a sample with
\* no quality component differs from the value published for a measured
\* score of zero.
C14_AbsentQualityDiffersFromZero ==
    Published =>
        /\ NoLteComponent =>
              payload.lte_quality # MeasuredZero /\ gauges.LTE_QUALITY # Num(MeasuredZero)
        /\ NoNrComponent =>
              payload.nr_quality # MeasuredZero /\ gauges.NR_QUALITY # Num(MeasuredZero)

\* C14 amended: a sample with no quality component is published with
\* lte_quality / nr_quality 0, in the payload and in the gauge, which is the
\* value of a measured score of zero; with a component present the
\* published value is the score, an integer in 0..100.
C14_AbsentQualityPublishedAsZero ==
    Published =>
        /\ gauges.LTE_QUALITY = Num(payload.lte_quality)
        /\ gauges.NR_QUALITY = Num(payload.nr_quality)
        /\ NoLteComponent => payload.lte_quality = 0 /\ MeasuredZero = 0
        /\ NoNrComponent => payload.nr_quality = 0
        /\ ~NoLteComponent =>
              /\ payload.lte_quality \in 0..100
              /\ Some(payload.lte_quality) =
                    quality_score(payload.lte_snr, payload.lte_rsrq, payload.lte_rsrp)
        /\ ~NoNrComponent =>
              /\ payload.nr_quality \in 0..100
              /\ Some(payload.nr_quality) =
                    quality_score(payload.nr_snr, payload.nr_rsrq, payload.nr_rsrp)

\* C14 witness: a no_signal sample, every metric absent, is in the registry
\* with both quality gauges at 0.
C14_Witness ==
    /\ pc = "broadcast" /\ state = "no_signal"
    /\ NoLteComponent /\ NoNrComponent
    /\ payload.lte_quality = 0 /\ gauges.LTE_QUALITY = Num(0) /\ gauges.NR_QUALITY = Num(0)

\* a parser function has been called and has returned
Called(f) == fn = f /\ ret # NoArg
\* the raw values of a payload's metric keys
RawsOf(m) == {m.diag0[k] : k \in DiagKeys} \cup {m.signal[k] : k \in SignalKeys}
IsNumber(r) == r.kind \in {"num", "numstr"}
IsSentinel(r) ==
    IsNumber(r) /\ (r.num \in {-32768, -3276, 32767, 3276} \/ r.num < -300 \/ r.num > 300)
IsReading(r) == IsNumber(r) /\ ~IsSentinel(r)
IsMalformed(r) == r.kind \in {"garbage", "other"}
\* some metric, band or service type of the payload is populated
Populated(m) ==
    \/ \E r \in RawsOf(m) : IsReading(r)
    \/ m.advBand # "" \/ m.curBand # "" \/ m.ps # "" \/ m.nw # ""

\* C15: a payload with a wwan mapping is ok when any metric, band or
\* service type is populated; else no_signal when a sentinel was seen and
\* nothing malformed; else parse_warning when something malformed was
\* seen; else source_unavailable.  So sentinels alone never give
\* source_unavailable.  A payload that is no mapping or has no wwan mapping
\* gives the empty sample and source_unavailable.
C15_ModelPayloadRuleOrder ==
    Called("parse_model_payload") =>
        LET m == arg.model
            sentinel == \E r \in RawsOf(m) : IsSentinel(r)
            malformed == \E r \in RawsOf(m) : IsMalformed(r)
        IN  IF ~m.isdict \/ ~m.haswwan
            THEN ret.data = empty_diagnostics /\ ret.state = "source_unavailable"
            ELSE /\ Populated(m) <=> ParsedAny(ret.data)
                 /\ ret.state = IF Populated(m) THEN "ok"
                                 ELSE IF sentinel /\ ~malformed THEN "no_signal"
                                 ELSE IF malformed THEN "parse_warning"
                                 ELSE "source_unavailable"
                 /\ (~Populated(m) /\ sentinel /\ ~malformed) =>
                        /\ ret.state # "source_unavailable"
                        /\ \A k \in NUMERIC_FIELDS : ret.data[k] = None

\* C15 witness: {"wwan":{"signalStrength":{"rsrp":-32768}}} gave no_signal.
C15_Witness ==
    /\ Called("parse_model_payload")
    /\ arg.model = Wwan(NoDiag, [NoSignal EXCEPT !["rsrp"] = Raw("num", -32768)], "", "")
    /\ ret.state = "no_signal" /\ ret.data = empty_diagnostics

\* C16: the text classifier gives ok when any numeric metric, band or
\* service type was parsed; else no_signal when a diagnostic label and
\* "n/a" both occur in the lowercased text; else parse_warning when a label
\* occurs; else source_unavailable; and the result is the function's value
\* on the text and the parsed sample.
C16_TextClassifier ==
    Called("classify_source_state") =>
        LET text == arg.text
            parsed == \/ \E k \in NUMERIC_FIELDS : ret.data[k] # None
                      \/ ret.data.band # "" \/ ret.data.service_type # ""
            label == \E i \in 1..Len(text) :
                        Lower(text[i].label) \in
                           {"lte rsrp", "lte rsrq", "lte rs-snr", "5g rsrp", "5g rsrq",
                            "5g rs-snr", "current radio band", "ps service type"}
            na == \E i \in 1..Len(text) : text[i].na
        IN  /\ parsed => ret.state = "ok"
            /\ (~parsed /\ label /\ na) => ret.state = "no_signal"
            /\ (~parsed /\ label /\ ~na) => ret.state = "parse_warning"
            /\ (~parsed /\ ~label) => ret.state = "source_unavailable"
            /\ ret.state = classify_source_state(text, ret.data)

\* C16 witness: "LTE RSRP -95\nSignal n/a": a label, no parsed value and
\* "n/a" on another line gave no_signal.
C16_Witness ==
    /\ Called("classify_source_state")
    /\ Len(arg.text) = 2 /\ arg.text[1].label = "LTE RSRP" /\ ~arg.text[1].na
    /\ arg.text[2].na /\ arg.text[2].label = ""
    /\ ret.data = empty_diagnostics /\ ret.state = "no_signal"

\* C17: the normalizer maps a numeric input that is one of the four
\* sentinels or has magnitude above 300 to (absent, TRUE, FALSE) and every
\* other numeric input x to (x, FALSE, FALSE); over a group of candidates
\* the first candidate that yields a value wins, and the flags are the OR
\* of the flags of the candidates examined, up to and including that one.
C17_NormalizerAndPick ==
    /\ (Called("_extract_metric_value") /\ arg.raw.kind = "num") =>
          LET x == arg.raw.num
          IN  IF x \in {-32768, -3276, 32767, 3276} \/ x > 300 \/ x < -300
              THEN ret = [value |-> None, sentinel |-> TRUE, malformed |-> FALSE]
              ELSE ret = [value |-> Some(x), sentinel |-> FALSE, malformed |-> FALSE]
    /\ Called("_pick_metric") =>
          LET c == arg.candidates
              E(i) == _extract_metric_value(c[i])
              hits == {i \in 1..Len(c) : E(i).value # None}
              last == IF hits = {} THEN Len(c)
                      ELSE CHOOSE k \in hits : \A j \in hits : k <= j
          IN  /\ ret.value = IF hits = {} THEN None ELSE E(last).value
              /\ ret.sentinel <=> \E i \in 1..last : E(i).sentinel
              /\ ret.malformed <=> \E i \in 1..last : E(i).malformed

\* C17 witness: ("--", -32768, -95, ...) picked -95 with both flags set from
\* the two candidates examined before it.
C17_Witness ==
    /\ Called("_pick_metric")
    /\ arg.candidates = << Raw("garbage", 0), Raw("num", -32768), Raw("num", -95) >>
    /\ ret = [value |-> Some(-95), sentinel |-> TRUE, malformed |-> TRUE]

\* C18: quality_score is absent exactly when SNR, RSRQ and RSRP are all
\* absent; otherwise it is an integer in [0, 100]; and raising one present
\* reading, the other two held fixed (present or absent), never lowers it.
C18_QualityScoreRangeMonotone ==
    /\ [](Called("quality_score") =>
            /\ (ret.score = None) <=>
                  (arg.snr = None /\ arg.rsrq = None /\ arg.rsrp = None)
            /\ ret.score # None => ret.score[1] \in 0..100)
    /\ [][ (Called("quality_score") /\ arg' # arg) =>
              /\ \E k \in {"snr", "rsrq", "rsrp"} :
                    /\ arg[k] # None /\ arg'[k] # None
                    /\ arg'[k][1] > arg[k][1]
                    /\ \A j \in {"snr", "rsrq", "rsrp"} \ {k} : arg'[j] = arg[j]
              /\ ret'.score[1] >= ret.score[1] ]_vars

\* C18 witness: RSRQ -10 and RSRP -100 with no SNR score 55.
C18_Witness ==
    /\ Called("quality_score")
    /\ arg = [snr |-> None, rsrq |-> Some(-10), rsrp |-> Some(-100)]
    /\ ret.score = Some(55)

\* the iteration under way evaluated to s and has not ended
Evaluated(s) ==
    state = s /\ pc \in {"update_streak", "publish", "broadcast", "check_restart"}

\* C19: an iteration evaluates to scrape_error only with no coalesced event
\* and a failed fallback scrape; its sample has all six metrics absent and
\* empty band and service type; it adds one to empty_streak and to the
\* failure counter; it is published as such; and the loop goes on with the
\* next iteration, or with a forced restart when the streak has reached
\* the threshold.
C19_ScrapeErrorIteration ==
    /\ [](Evaluated("scrape_error") =>
            /\ event = None
            /\ \A k \in NUMERIC_FIELDS : data[k] = None
            /\ data.band = "" /\ data.service_type = "")
    /\ []((state = "scrape_error" /\ pc \in {"broadcast", "check_restart"}) =>
            /\ payload.source_state = "scrape_error"
            /\ \A k \in NUMERIC_FIELDS : payload[k] = None
            /\ payload.band = "" /\ payload.service_type = ""
            /\ payload.empty_streak = empty_streak /\ empty_streak >= 1
            /\ failure_inc = 1)
    /\ [][ /\ (pc = "got_event" /\ pc' # pc /\ ~interrupted' /\ state' = "scrape_error") =>
                event = None /\ pc' = "update_streak"
           /\ (pc = "update_streak" /\ state = "scrape_error" /\ pc' = "publish") =>
                empty_streak' = empty_streak + 1 /\ failure_inc' = failure_inc + 1
           /\ (pc = "check_restart" /\ state = "scrape_error" /\ pc' # pc /\ ~interrupted') =>
                IF empty_streak >= restart_threshold
                THEN RestartStep
                ELSE pc' = "loop" /\ scraper' = scraper
         ]_vars

\* C19 witness: the third failed fallback scrape in a row is published and
\* the loop is at its next iteration on the same session.
C19_Witness ==
    /\ pc = "loop" /\ state = "scrape_error" /\ scraper = "obj" /\ ~start_failed
    /\ empty_streak = 3 /\ consec = 3
    /\ last_broadcast.source_state = "scrape_error" /\ last_broadcast.empty_streak = 3

\* C20: in every published sample scrape_success = 1 exactly when
\* source_state is ok or no_signal, exactly when the published
\* empty_streak is 0; a failure state has scrape_success = 0 and
\* empty_streak >= 1; the registry holds the same three values and the
\* fixed code of the state.
C20_HealthFieldsAgree ==
    Published =>
        LET s == payload.source_state
        IN  /\ (payload.scrape_success = 1) <=> (s \in {"ok", "no_signal"})
            /\ (payload.scrape_success = 1) <=> (payload.empty_streak = 0)
            /\ payload.scrape_success \in {0, 1}
            /\ s \in {"source_unavailable", "parse_warning", "scrape_error",
                       "startup_error"} =>
                  payload.scrape_success = 0 /\ payload.empty_streak >= 1
            /\ gauges.SOURCE_STATUS = s
            /\ gauges.SCRAPE_SUCCESS = payload.scrape_success
            /\ gauges.SOURCE_EMPTY_STREAK = payload.empty_streak
            /\ gauges.SOURCE_STATE_CODE =
                  CASE s = "ok" -> 0
                    [] s = "no_signal" -> 1
                    [] s = "source_unavailable" -> 2
                    [] s = "parse_warning" -> 3
                    [] s = "scrape_error" -> 4
                    [] s = "startup_error" -> 5

\* C20 witness: a startup_error that follows a forced restart is in the
\* registry with the streak it continues.
C20_Witness ==
    /\ Published /\ pc = "startup_broadcast"
    /\ payload.source_state = "startup_error" /\ payload.scrape_success = 0
    /\ payload.empty_streak = 6 /\ gauges.SOURCE_STATE_CODE = 5
    /\ gauges.SOURCE_EMPTY_STREAK = 6

\* C21: whatever the interleaving of the listener's pushes with the
\* controller's calls on one session, every event a call returns arrived
\* later than every event an earlier call returned: none is returned
\* twice, none is older than one returned before.
C21_ReturnedInArrivalOrder ==
    /\ []((Returned /\ event # None) => event[1].id > call.last)
    /\ [][ /\ call'.last >= call.last
           /\ (Returned /\ pc' = "get_wait" /\ event # None) =>
                call'.last = event[1].id /\ call'.last > call.last
           /\ (Returned /\ pc' = "get_wait" /\ event = None) => call'.last = call.last
         ]_vars

\* C21 witness: a call returns event 5 after an earlier call returned
\* event 2, with a push under way.
C21_Witness ==
    /\ Returned /\ event # None /\ event[1].id = 5 /\ call.last = 2
    /\ l_pc # "idle"

\* The numbers of the broadcasts whose events lie in a mailbox, oldest first.
StampsOf(q) == [i \in 1..Len(q) |-> q[i].empty_streak]

\* A step in which handler h reads an event from its mailbox.
Reads(h) == handler[h] = "streaming" /\ mailbox'[h] # mailbox[h] /\ stream'[h] # stream[h]

\* Every mailbox holds events in publication order, each once, all of them
\* newer than what its handler has read and than the broadcasts made before
\* its queue was registered; the queue of a handler whose
\* unsubscribe has returned is off the client list and stays empty.
MailboxesInOrder ==
    \A h \in Handlers :
        /\ \A i \in 1..Len(mailbox[h]) :
              /\ mailbox[h][i].empty_streak > stream[h].last
              /\ mailbox[h][i].empty_streak <= sent
              /\ i > 1 => mailbox[h][i].empty_streak > mailbox[h][i - 1].empty_streak
        /\ handler[h] = "done" =>
              /\ mailbox[h] = << >>
              /\ \A i \in 1..Len(clients) : clients[i] # h

\* A read takes the oldest event of the mailbox, a published event newer
\* than every event read before and than every broadcast made before the
\* queue was registered;
\* only a streaming handler reads; nothing changes for a handler whose
\* unsubscribe has returned.
ReadsInOrder ==
    \A h \in Handlers :
        /\ Reads(h) =>
              /\ Head(mailbox[h]) = PayloadOf(empty_diagnostics, "scrape_error",
                                                stream'[h].last)
              /\ stream'[h].last > stream[h].last
              /\ stream'[h].last <= sent
              /\ mailbox'[h] = Tail(mailbox[h])
        /\ stream'[h].last # stream[h].last => handler[h] \in {"none", "streaming"}
        /\ handler[h] = "none" /\ handler'[h] # "none" =>
              stream'[h].last = sent /\ mailbox'[h] = << >>
        /\ handler[h] = "done" =>
              handler'[h] = "done" /\ mailbox'[h] = << >> /\ stream'[h] = stream[h]

\* C22 as stated: what a subscriber reads is a subsequence of the broadcasts
\* in publication order without duplicates, holding only events broadcast
\* after its subscribe returned (no read takes an event that lay in the
\* mailbox when subscribe returned) and before its unsubscribe returned;
\* after unsubscribe has returned no broadcast adds anything to the mailbox.
C22_OnlyEventsAfterSubscribeReturned ==
    /\ []MailboxesInOrder
    /\ [][ /\ ReadsInOrder
           /\ \A h \in Handlers : Reads(h) => stream[h].early # "waiting" ]_vars

\* C22: what a subscriber reads is a subsequence of the broadcasts in
\* publication order without duplicates, holding only events broadcast
\* after subscribe() put its queue on the client list (which is before
\* subscribe returns) and before its unsubscribe returned; after unsubscribe
\* has returned no broadcast adds anything to the mailbox.
C22_OnlyEventsAfterRegistration ==
    /\ []MailboxesInOrder
    /\ [][ReadsInOrder]_vars

\* A subscriber has read event 3, which was broadcast between the
\* registration of its queue and the return of subscribe, and holds the two
\* events broadcast since; the other subscriber has left.
C22_Witness ==
    /\ handler[2] = "streaming" /\ stream[2].early = "read" /\ stream[2].last = 3
    /\ StampsOf(mailbox[2]) = << 4, 5 >> /\ sent = 5 /\ cursor = 0
    /\ handler[1] = "done"

====
